---- MODULE Spec2Model ----
(***************************************************************************)
(* A model of the riverrun transport (riverrun.go): the process-wide table *)
(* cache (getTables), connection construction (NewConn), the per-frame     *)
(* codec (processLength / encode, decodeLength / decodePayload) and the    *)
(* write path with its chunk-size sampling (Conn.Write / nextLength).      *)
(*                                                                         *)
(* The specifications share the variables:                                 *)
(*   Spec           concurrent NewConn calls racing on the table cache     *)
(*   SpecCodec      a client and a server Conn exchanging frames           *)
(*   SpecHooks      one direct call of a coder hook, with any arguments    *)
(*   SpecDecode     a Conn reading what an untrusted transport delivers    *)
(*   SpecDuplex     one Conn written and read by two goroutines at once    *)
(*   SpecWrite      one Conn.Write call, with nextLength's recursion       *)
(*   SpecWriteFair  the same, with the Write goroutine scheduled fairly    *)
(*                                                                         *)
(* The packages ctstretch, drbg and framing are not part of riverrun.go;   *)
(* what the model needs of them is taken from the design document and is   *)
(* marked as such.  The DRBG and the CTR keystream are treated             *)
(* symbolically: distinct seeds and distinct read positions give distinct  *)
(* outputs.  Bytes range over ByteVals values instead of 256.  The tb       *)
(* argument of ExpandBytes and CompressBytes (rand.Int(), a tag for the     *)
(* debug log) is left out.                                                  *)
(***************************************************************************)
EXTENDS Integers, Sequences, FiniteSets, TLC

\* ------------------------------------------------------------------ bounds
\* concurrent NewConn calls in one process
NumCalls == 3
\* distinct seeds the calls draw from
NumSeeds == 2
\* frames one side writes
MaxFrames == 2
\* bytes in the frame buffer Chop returns
MaxFrameBuf == 3
\* bytes an untrusted transport delivers to a reader
MaxWire == 6
\* Conn.mss_max ranges over -1 .. MaxMss, Conn.mss_dev over 0 .. MaxDev, and
\* a normal draw, as a whole number, over -MaxNorm .. MaxNorm
MaxMss == 2
MaxDev == 1
MaxNorm == 2
\* nested nextLength calls the goroutine stack holds
MaxStack == 2
\* size of the byte alphabet (256 in the program)
ByteVals == 2
\* packet types a caller may pass, 0 .. MaxPktType (a uint8 in the program)
MaxPktType == 1

Calls == 1..NumCalls
Seeds == 1..NumSeeds
Byte  == 0..(ByteVals - 1)

\* ------------------------------------------------------- program constants
PacketTypePayload == 0
compressedBlockBits == 16
expandedBlockBits == 32
expandedBlockBits8 == expandedBlockBits \div 2
\* get_mss: int(rng.Float64()*800) + 600
MssBase == 600
MssSpan == 800
\* framing.LengthLength: the length field is two bytes before expansion
LengthLength == 2
\* framing.MaximumSegmentLength, scaled with the byte alphabet so that the
\* two-byte length field can hold every payload length
MaximumSegmentLength == 10

\* ------------------------------------------------------------ small helpers
Range(s) == {s[i] : i \in DOMAIN s}

Min(a, b) == IF a < b THEN a ELSE b

\* every byte string of length lo .. hi
ByteStrings(lo, hi) == UNION { [1..n -> Byte] : n \in lo..hi }

RECURSIVE Pow(_, _)
Pow(b, e) == IF e = 0 THEN 1 ELSE b * Pow(b, e - 1)

\* ------------------------------------------------------------------- DRBG
\* The n-th value read from rand.New(NewHashDrbg(seed)), as a token.  The
\* generator is deterministic in the seed; outputs are treated as distinct
\* for distinct (seed, n), n < 16.
Drbg(seed, n) == seed * 16 + ((n + 3 * seed) % 16)

\* The reads NewConn makes, in program order.
KeyOf(seed)     == Drbg(seed, 1)
BiasOf(seed)    == Drbg(seed, 2)
TableIvOf(seed) == Drbg(seed, 3)
FirstIvOf(seed) == Drbg(seed, 4)
SecondIvOf(seed) == Drbg(seed, 5)
FirstKeyOf(seed) == Drbg(seed, 6)
SecondKeyOf(seed) == Drbg(seed, 7)
MssDevOf(seed)  == Drbg(seed, 8) % 4

\* get_mss builds a second generator from the same seed and takes its first
\* Float64.
get_mss(seed) == ((Drbg(seed, 1) * 131) % MssSpan) + MssBase

\* ------------------------------------------------------------- CTR stream
\* cipher.NewCTR(block, iv): the key stream of the AES block keyed by `key`,
\* started at iv; pos counts the bytes consumed so far.
NewCTR(key, iv) == [key |-> key, iv |-> iv, pos |-> 0]

KeystreamByte(stream, i) ==
    (stream.key * 3 + stream.iv * (i + 1) + (i * i)) % ByteVals

Advance(stream, n) == [stream EXCEPT !.pos = @ + n]

\* ---------------------------------------------------------------- tables
\* ctstretch.SampleBiasedStrings(bits, n, bias, stream): n distinct code
\* words of bits/8 bytes each, a deterministic function of the bias and of
\* the key stream from its current position.  A code word is a number in
\* 0 .. ByteVals^(bits/8) - 1.  The k-th candidate steps through the code
\* space by 1 or 2, by the bias; as 2 * n never exceeds the code space the
\* candidates are distinct and none is rejected.
CodeSpace(bits) == Pow(ByteVals, bits \div 8)

Candidate(stream, bias, k, space) ==
    (stream.key * 5 + stream.iv * 7 + (stream.pos + k) * (1 + (bias % 2))) % space

\* the table as a sequence: entry v + 1 is the code word of value v
SampleBiasedStrings(bits, n, bias, stream) ==
    [v \in 1..n |-> Candidate(stream, bias, v - 1, CodeSpace(bits))]

\* ctstretch.InvertTable: code word -> value
InvertTable(table) ==
    [c \in Range(table) |-> CHOOSE v \in 0..(Len(table) - 1) : table[v + 1] = c]

\* ------------------------------------------------------- framing arithmetic
\* ctstretch.ExpandedNBytes / CompressedNBytes / CompressedNBytes_floor
ExpandedNBytes(n, inBits, outBits) == n * (outBits \div inBits)

CompressedNBytes(n, inBits, outBits) ==
    (n + (inBits \div outBits) - 1) \div (inBits \div outBits)

CompressedNBytes_floor(n, inBits, outBits) == n \div (inBits \div outBits)

\* ---------------------------------------------------------------- state
VARIABLES
    \* the package-level cache and its lock
    cache8, cache16, mutex,
    \* one NewConn call per element of Calls
    pc, seed, isServer, table8, table16, conn, err,
    \* a client and a server Conn of one seed, and the transport between them
    ends, wire, sent, nsent, readErr,
    \* the last direct call of a coder hook on one of them, with its result
    hook,
    \* one Conn.Write call: the Conn's chunking fields, the call's position,
    \* its locals and results, and the transport writes it has issued
    rr, wpc, encoded, frameBuf, depth, nextLen, toWire, nread, writes, ret

cacheVars == <<cache8, cache16, mutex>>
callVars  == <<pc, seed, isServer, table8, table16, conn, err>>
codecVars == <<ends, wire, sent, nsent, readErr, hook>>
writeVars == <<rr, wpc, encoded, frameBuf, depth, nextLen, toWire, nread, writes, ret>>
vars == <<cache8, cache16, mutex, pc, seed, isServer, table8, table16, conn, err,
          ends, wire, sent, nsent, readErr, hook,
          rr, wpc, encoded, frameBuf, depth, nextLen, toWire, nread, writes, ret>>

\* a map variable: nil until made, then a function on the keys it holds
NilMap  == [nil |-> TRUE, m |-> << >>]
MakeMap == [nil |-> FALSE, m |-> << >>]
NoTable == [codes |-> << >>, alloc |-> 0]
NoConn  == [isServer |-> FALSE]
NoErr   == "nil"
NoHook  == [op |-> "none"]

\* a map lookup v, ok := m[k]; a nil map reads as empty
Has(c, k) == k \in DOMAIN c.m
Lookup(c, k) == IF Has(c, k) THEN c.m[k] ELSE NoTable
\* m[k] = v
Store(c, k, v) ==
    [c EXCEPT !.m = [x \in (DOMAIN c.m) \cup {k} |-> IF x = k THEN v ELSE c.m[x]]]

\* ------------------------------------------------------------- the coders
\* An encoder whose payload budget leaves the length field out of account.
newRiverrunEncoderNoLength(key, writeStream, t8, t16, cBits, eBits) ==
    [ Drbg |-> key,
      MaxPacketPayloadLength |->
          CompressedNBytes_floor(MaximumSegmentLength, eBits, cBits),
      LengthLength |-> ExpandedNBytes(LengthLength, cBits, eBits),
      writeStream |-> writeStream,
      table8 |-> t8,
      table16 |-> t16,
      compressedBlockBits |-> cBits,
      expandedBlockBits |-> eBits ]

newRiverrunEncoder(key, writeStream, t8, t16, cBits, eBits) ==
    [ Drbg |-> key,
      MaxPacketPayloadLength |->
          CompressedNBytes_floor(
              MaximumSegmentLength - ExpandedNBytes(LengthLength, cBits, eBits),
              eBits, cBits),
      LengthLength |-> ExpandedNBytes(LengthLength, cBits, eBits),
      writeStream |-> writeStream,
      table8 |-> t8,
      table16 |-> t16,
      compressedBlockBits |-> cBits,
      expandedBlockBits |-> eBits ]

newRiverrunDecoder(key, readStream, rev8, rev16, cBits, eBits) ==
    [ Drbg |-> key,
      LengthLength |-> ExpandedNBytes(LengthLength, cBits, eBits),
      MinPayloadLength |-> ExpandedNBytes(1, cBits, eBits),
      PacketOverhead |-> 0,
      MaxFramePayloadLength |->
          MaximumSegmentLength - ExpandedNBytes(LengthLength, cBits, eBits),
      NextLength |-> 0,
      ReceiveDecodedBuffer |-> << >>,
      readStream |-> readStream,
      revTable8 |-> rev8,
      revTable16 |-> rev16,
      compressedBlockBits |-> cBits,
      expandedBlockBits |-> eBits ]

\* no connection pair is set up
CodecIdle ==
    /\ ends = << >>
    /\ wire = << >>
    /\ sent = << >>
    /\ nsent = << >>
    /\ readErr = << >>
    /\ hook = NoHook

\* no Write call is set up
WriteIdle ==
    /\ rr = << >>
    /\ wpc = "none"
    /\ encoded = << >>
    /\ frameBuf = << >>
    /\ depth = 0
    /\ nextLen = 0
    /\ toWire = << >>
    /\ nread = 0
    /\ writes = << >>
    /\ ret = << >>

\* ---------------------------------------------------------------- NewConn
\* The stream made first (line 93) and the one made in the branch (101/107).
FirstStream(s)  == NewCTR(KeyOf(s), FirstIvOf(s))
SecondStream(s) == NewCTR(KeyOf(s), SecondIvOf(s))

\* Both branches reading streams and keys in the server's order.
RolesNotSwapped(s, srv) ==
    [ readStream |-> FirstStream(s), writeStream |-> SecondStream(s),
      readKey |-> FirstKeyOf(s), writeKey |-> SecondKeyOf(s) ]

\* lines 98-110: which stream and which key serve which direction
Roles(s, srv) ==
    IF srv
    THEN [ readStream |-> FirstStream(s), writeStream |-> SecondStream(s),
           readKey |-> FirstKeyOf(s), writeKey |-> SecondKeyOf(s) ]
    ELSE [ writeStream |-> FirstStream(s), readStream |-> SecondStream(s),
           writeKey |-> FirstKeyOf(s), readKey |-> SecondKeyOf(s) ]

\* lines 112-128: the Conn returned once the tables are in hand
MakeConn(s, srv, t8, t16) ==
    LET r == Roles(s, srv)
    IN  [ isServer |-> srv,
          bias |-> BiasOf(s),
          mss_max |-> get_mss(s),
          mss_dev |-> MssDevOf(s),
          Encoder |-> newRiverrunEncoder(r.writeKey, r.writeStream, t8, t16,
                          compressedBlockBits, expandedBlockBits),
          Decoder |-> newRiverrunDecoder(r.readKey, r.readStream,
                          InvertTable(t8.codes), InvertTable(t16.codes),
                          compressedBlockBits, expandedBlockBits) ]

\* A build whose key stream is not restarted from the iv of its own call.
FreshTable8Shared(s, c) ==
    [ codes |-> SampleBiasedStrings(expandedBlockBits8, ByteVals, BiasOf(s),
                    Advance(NewCTR(KeyOf(s), TableIvOf(s)), c)),
      alloc |-> c ]

\* lines 160-167: both tables come from one stream, table8 first
FreshTable8(s, c) ==
    [ codes |-> SampleBiasedStrings(expandedBlockBits8, ByteVals, BiasOf(s),
                    NewCTR(KeyOf(s), TableIvOf(s))),
      alloc |-> c ]

FreshTable16(s, c) ==
    [ codes |-> SampleBiasedStrings(expandedBlockBits, ByteVals * ByteVals, BiasOf(s),
                    Advance(NewCTR(KeyOf(s), TableIvOf(s)), ByteVals)),
      alloc |-> c ]

\* A cache key taken from the key buffer before the generator has filled it.
CacheKeyUnfilled(s) == 0

\* lines 59-60, 147, 151, 174-175: string(key), the cache key of a call
CacheKey(s) == KeyOf(s)

\* a nil dereference in one call ends the process, and every call with it
Running == \A c \in Calls : pc[c] # "panic"

\* lines 55-86 and 137-144: the call starts, derives key, bias and iv from
\* the seed, enters getTables and makes the maps on first use, under the lock.
\* When get_rng fails (line 57) its error is overwritten on line 61 without
\* having been read, rng is nil, and rng.Read on line 60 dereferences it: the
\* process ends, and with it every other call.
NewConnStart(c) ==
    /\ Running
    /\ pc[c] = "idle"
    /\ \/ /\ mutex = 0
          /\ \E s \in Seeds : seed' = [seed EXCEPT ![c] = s]
          /\ cache8' = IF cache8.nil THEN MakeMap ELSE cache8
          /\ cache16' = IF cache16.nil THEN MakeMap ELSE cache16
          /\ pc' = [pc EXCEPT ![c] = "look8"]
          /\ UNCHANGED <<mutex, isServer, table8, table16, conn, err>>
       \/ /\ pc' = [d \in Calls |-> "panic"]
          /\ err' = [d \in Calls |-> IF d = c THEN "drbg" ELSE NoErr]
          /\ UNCHANGED cacheVars
          /\ seed' = [d \in Calls |-> 0]
          /\ isServer' = [d \in Calls |-> FALSE]
          /\ table8' = [d \in Calls |-> NoTable]
          /\ table16' = [d \in Calls |-> NoTable]
          /\ conn' = [d \in Calls |-> NoConn]
    /\ UNCHANGED <<codecVars, writeVars>>

\* lines 86-128, after getTables has returned t8 and t16: streams, keys, mss
\* and the two coders.  isServer is first read on line 98; its value is
\* drawn here.  When get_mss fails (lines 116-119) NewConn returns its error
\* and no Conn, and the call's locals go out of scope.
Return(c, t8, t16) ==
    \/ /\ \E srv \in BOOLEAN :
              /\ isServer' = [isServer EXCEPT ![c] = srv]
              /\ conn' = [conn EXCEPT ![c] = MakeConn(seed[c], srv, t8, t16)]
       /\ table8' = [table8 EXCEPT ![c] = t8]
       /\ table16' = [table16 EXCEPT ![c] = t16]
       /\ pc' = [pc EXCEPT ![c] = "done"]
       /\ UNCHANGED <<seed, err>>
    \/ /\ err' = [err EXCEPT ![c] = "mss"]
       /\ seed' = [seed EXCEPT ![c] = 0]
       /\ table8' = [table8 EXCEPT ![c] = NoTable]
       /\ table16' = [table16 EXCEPT ![c] = NoTable]
       /\ pc' = [pc EXCEPT ![c] = "failed"]
       /\ UNCHANGED <<isServer, conn>>

\* lines 146-149
Lookup8(c) ==
    /\ Running
    /\ pc[c] = "look8"
    /\ mutex = 0
    /\ table8' = [table8 EXCEPT ![c] = Lookup(cache8, CacheKey(seed[c]))]
    /\ pc' = [pc EXCEPT ![c] =
                 IF Has(cache8, CacheKey(seed[c])) THEN "look16" ELSE "build"]
    /\ UNCHANGED <<cacheVars, seed, isServer, table16, conn, err, codecVars, writeVars>>

\* lines 150-157: on a hit of both maps the cached pair is returned
Lookup16(c) ==
    /\ Running
    /\ pc[c] = "look16"
    /\ mutex = 0
    /\ IF Has(cache16, CacheKey(seed[c]))
       THEN Return(c, table8[c], Lookup(cache16, CacheKey(seed[c])))
       ELSE /\ pc' = [pc EXCEPT ![c] = "build"]
            /\ UNCHANGED <<seed, table8, table16, isServer, conn, err>>
    /\ UNCHANGED <<cacheVars, codecVars, writeVars>>

\* lines 159-171: the tables are sampled outside the lock; either sampling
\* may fail, and then getTables and NewConn return the error and the call's
\* locals go out of scope
Build(c) ==
    /\ Running
    /\ pc[c] = "build"
    /\ \/ /\ table8' = [table8 EXCEPT ![c] = FreshTable8(seed[c], c)]
          /\ table16' = [table16 EXCEPT ![c] = FreshTable16(seed[c], c)]
          /\ pc' = [pc EXCEPT ![c] = "insert"]
          /\ UNCHANGED <<seed, err>>
       \/ /\ \E e \in {"table8", "table16"} : err' = [err EXCEPT ![c] = e]
          /\ seed' = [seed EXCEPT ![c] = 0]
          /\ table8' = [table8 EXCEPT ![c] = NoTable]
          /\ table16' = [table16 EXCEPT ![c] = NoTable]
          /\ pc' = [pc EXCEPT ![c] = "failed"]
    /\ UNCHANGED <<cacheVars, isServer, conn, codecVars, writeVars>>

\* An insert that gives the lock up between the two map writes.
Insert8Unlocked(c) ==
    /\ Running
    /\ pc[c] = "insert"
    /\ mutex = 0
    /\ mutex' = 0
    /\ cache8' = Store(cache8, CacheKey(seed[c]), table8[c])
    /\ pc' = [pc EXCEPT ![c] = "insert16"]
    /\ UNCHANGED <<cache16, seed, isServer, table8, table16, conn, err, codecVars, writeVars>>

\* lines 173-174: the lock is taken and cache8 written
Insert8(c) ==
    /\ Running
    /\ pc[c] = "insert"
    /\ mutex = 0
    /\ mutex' = c
    /\ cache8' = Store(cache8, CacheKey(seed[c]), table8[c])
    /\ pc' = [pc EXCEPT ![c] = "insert16"]
    /\ UNCHANGED <<cache16, seed, isServer, table8, table16, conn, err, codecVars, writeVars>>

\* lines 175-178: cache16 written, the lock released, the pair returned
Insert16(c) ==
    /\ Running
    /\ pc[c] = "insert16"
    /\ mutex = c
    /\ mutex' = 0
    /\ cache16' = Store(cache16, CacheKey(seed[c]), table16[c])
    /\ Return(c, table8[c], table16[c])
    /\ UNCHANGED <<cache8, codecVars, writeVars>>

\* no NewConn call has started and the maps are nil
CacheInit ==
    /\ cache8 = NilMap
    /\ cache16 = NilMap
    /\ mutex = 0
    /\ pc = [c \in Calls |-> "idle"]
    /\ seed = [c \in Calls |-> 0]
    /\ isServer = [c \in Calls |-> FALSE]
    /\ table8 = [c \in Calls |-> NoTable]
    /\ table16 = [c \in Calls |-> NoTable]
    /\ conn = [c \in Calls |-> NoConn]
    /\ err = [c \in Calls |-> NoErr]

Init ==
    /\ CacheInit
    /\ CodecIdle
    /\ WriteIdle

Next ==
    \E c \in Calls :
        \/ NewConnStart(c)
        \/ Lookup8(c)
        \/ Lookup16(c)
        \/ Build(c)
        \/ Insert8(c)
        \/ Insert16(c)

Spec == Init /\ [][Next]_vars

\* ------------------------------------------------------ claims on the cache
Done(c) == pc[c] = "done"

\* the call sampled the tables it holds itself
Built(c) == pc[c] \in {"insert", "insert16", "done"} /\ table8[c].alloc = c

\* rev is the exact inverse of the forward table fwd
Inverts(rev, fwd) ==
    /\ DOMAIN rev = Range(fwd)
    /\ \A v \in 0..(Len(fwd) - 1) : rev[fwd[v + 1]] = v

\* C1: for every key, over any interleaving of getTables calls, the tables
\* are built at most once: no two calls with the same key both sample.
C1_BuiltAtMostOnce ==
    \A c, d \in Calls :
        (Built(c) /\ Built(d) /\ CacheKey(seed[c]) = CacheKey(seed[d])) => c = d

\* C2: all callers that requested tables for the same key and returned hold
\* pairs that are equal entry for entry, and the reverse tables one caller
\* derived invert the forward tables of every other.
C2_SameTablesPerKey ==
    \A c, d \in Calls :
        (Done(c) /\ Done(d) /\ CacheKey(seed[c]) = CacheKey(seed[d])) =>
            /\ table8[c].codes = table8[d].codes
            /\ table16[c].codes = table16[d].codes
            /\ Inverts(conn[c].Decoder.revTable8, conn[d].Encoder.table8.codes)
            /\ Inverts(conn[c].Decoder.revTable16, conn[d].Encoder.table16.codes)

\* two callers with one key returned tables from two different builds
C2_Witness ==
    \E c, d \in Calls :
        /\ Done(c) /\ Done(d) /\ c # d
        /\ seed[c] = seed[d]
        /\ table8[c].alloc # table8[d].alloc

\* C4: for a server and a client built from one seed, the server reads with
\* the stream and key the client writes with, and writes with the stream and
\* key the client reads with; the two directions have different IVs.
C4_RolesSwapped ==
    \A c, d \in Calls :
        (Done(c) /\ Done(d) /\ seed[c] = seed[d]
            /\ conn[c].isServer /\ ~conn[d].isServer) =>
            /\ conn[c].Decoder.readStream = conn[d].Encoder.writeStream
            /\ conn[c].Decoder.Drbg = conn[d].Encoder.Drbg
            /\ conn[c].Encoder.writeStream = conn[d].Decoder.readStream
            /\ conn[c].Encoder.Drbg = conn[d].Decoder.Drbg
            /\ conn[c].Encoder.writeStream.iv # conn[c].Decoder.readStream.iv
            /\ conn[d].Encoder.writeStream.iv # conn[d].Decoder.readStream.iv

C4_Witness ==
    \E c, d \in Calls :
        /\ Done(c) /\ Done(d) /\ seed[c] = seed[d]
        /\ conn[c].isServer /\ ~conn[d].isServer

\* what a peer process, whose cache is empty, samples for seed s
PeerTable8(s) == FreshTable8(s, 0).codes

PeerTable16(s) == FreshTable16(s, 0).codes

\* C5: table derivation is deterministic in the seed: whether a call's tables
\* were built by it or taken from the cache, they are the tables an
\* independent construction from the same seed samples, and its reverse
\* tables invert that construction's forward tables.
C5_Deterministic ==
    \A c \in Calls :
        Done(c) =>
            LET p8 == PeerTable8(seed[c])
                p16 == PeerTable16(seed[c])
            IN  /\ conn[c].Encoder.table8.codes = p8
                /\ conn[c].Encoder.table16.codes = p16
                /\ Inverts(conn[c].Decoder.revTable8, p8)
                /\ Inverts(conn[c].Decoder.revTable16, p16)

\* a call returned cached tables while another seed's entry is in the cache
C5_Witness ==
    \E c, d \in Calls :
        /\ Done(c) /\ Done(d)
        /\ table8[c].alloc = d /\ c # d
        /\ \E k \in DOMAIN cache8.m : k # CacheKey(seed[c])

\* C6: once a key has an entry, every later state holds that same entry:
\* no eviction, and no later insert replaces it.
C6_EntryImmutable ==
    [][ /\ \A k \in DOMAIN cache8.m :
              k \in DOMAIN cache8'.m /\ cache8'.m[k] = cache8.m[k]
        /\ \A k \in DOMAIN cache16.m :
              k \in DOMAIN cache16'.m /\ cache16'.m[k] = cache16.m[k] ]_vars

\* C12: a failure during construction yields an error and no connection:
\* no NewConn call ends the process, a call whose step failed has returned
\* that error and no Conn, and a call that returned a Conn had no error.
C12_FailsWithError ==
    /\ Running
    /\ \A c \in Calls :
          /\ err[c] # NoErr => (pc[c] = "failed" /\ conn[c] = NoConn)
          /\ Done(c) => err[c] = NoErr

\* C18: the two tables returned together to one caller come from one build
\* invocation, never table8 from one build and table16 from another.
C18_PairFromOneBuild ==
    \A c \in Calls :
        Done(c) =>
            /\ table8[c].alloc = table16[c].alloc
            /\ conn[c].Encoder.table8.alloc = conn[c].Encoder.table16.alloc

\* the tables some call sampled are in a cache map
Cached(c) ==
    \/ \E k \in DOMAIN cache8.m : cache8.m[k].alloc = c
    \/ \E k \in DOMAIN cache16.m : cache16.m[k].alloc = c

\* C20: whenever no caller holds the mutex the two maps hold the same keys;
\* a call whose table8 or table16 build failed has returned no tables, only
\* the error, and nothing of it is in either map.
C20_MapsPaired ==
    /\ mutex = 0 =>
          /\ cache8.nil = cache16.nil
          /\ DOMAIN cache8.m = DOMAIN cache16.m
    /\ \A c \in Calls :
          (pc[c] = "failed" /\ err[c] \in {"table8", "table16"}) =>
              /\ table8[c] = NoTable /\ table16[c] = NoTable
              /\ conn[c] = NoConn
              /\ ~Cached(c)

\* the lock is free, one call's table16 build has failed, and the pair of
\* another call is in both maps
C20_Witness ==
    /\ mutex = 0
    /\ \E c \in Calls : pc[c] = "failed" /\ err[c] = "table16"
    /\ \E d \in Calls : Done(d) /\ Cached(d)
    /\ DOMAIN cache8.m # {}

\* ------------------------------------------------------------ byte codec
\* binary.BigEndian.PutUint16 / Uint16 on a two-byte field
PutUint16LE(length) == << length % ByteVals, (length \div ByteVals) % ByteVals >>

PutUint16(length) == << (length \div ByteVals) % ByteVals, length % ByteVals >>

Uint16(b) == b[1] * ByteVals + b[2]

\* the big-endian bytes of an n-byte word, and the word of some bytes
RECURSIVE WordBytes(_, _)
WordBytes(w, n) ==
    IF n = 0 THEN << >>
    ELSE Append(WordBytes(w \div ByteVals, n - 1), w % ByteVals)

RECURSIVE BytesWord(_)
BytesWord(b) ==
    IF b = << >> THEN 0
    ELSE BytesWord(SubSeq(b, 1, Len(b) - 1)) * ByteVals + b[Len(b)]

\* cipher.Stream.XORKeyStream at the stream's position, and its inverse
XORKeyStream(stream, src) ==
    [i \in 1..Len(src) |->
        (src[i] + KeystreamByte(stream, stream.pos + i - 1)) % ByteVals]

UnXORKeyStream(stream, src) ==
    [i \in 1..Len(src) |->
        (src[i] + ByteVals - KeystreamByte(stream, stream.pos + i - 1)) % ByteVals]

\* ctstretch.ExpandBytes: the source is masked with the key stream; each
\* full group of inBytes bytes is replaced by its table16 code word of
\* outBytes bytes, a trailing single byte by its table8 code word of
\* outBytes/2 bytes.
RECURSIVE ExpandBlocks(_, _, _, _)
ExpandBlocks(src, outBytes, t16, t8) ==
    IF src = << >> THEN << >>
    ELSE IF Len(src) = 1
         THEN WordBytes(t8[src[1] + 1], outBytes \div 2)
         ELSE WordBytes(t16[BytesWord(SubSeq(src, 1, 2)) + 1], outBytes)
                  \o ExpandBlocks(SubSeq(src, 3, Len(src)), outBytes, t16, t8)

ExpandBytes(src, inBits, outBits, t16, t8, stream) ==
    ExpandBlocks(XORKeyStream(stream, src), outBits \div 8, t16, t8)

\* ctstretch.CompressBytes: the inverse; a code word absent from the reverse
\* table, or a length that is not a whole number of code words, is an error.
RECURSIVE CompressBlocks(_, _, _, _)
CompressBlocks(raw, inBytes, rev16, rev8) ==
    IF raw = << >> THEN [err |-> NoErr, out |-> << >>]
    ELSE IF Len(raw) >= inBytes
    THEN LET w == BytesWord(SubSeq(raw, 1, inBytes))
             rest == CompressBlocks(SubSeq(raw, inBytes + 1, Len(raw)),
                                    inBytes, rev16, rev8)
         IN  IF w \notin DOMAIN rev16 THEN [err |-> "codeword", out |-> << >>]
             ELSE IF rest.err # NoErr THEN rest
             ELSE [err |-> NoErr, out |-> WordBytes(rev16[w], 2) \o rest.out]
    ELSE IF Len(raw) = inBytes \div 2
    THEN LET w == BytesWord(raw)
         IN  IF w \notin DOMAIN rev8 THEN [err |-> "codeword", out |-> << >>]
             ELSE [err |-> NoErr, out |-> << rev8[w] >>]
    ELSE [err |-> "format", out |-> << >>]

CompressBytes(raw, inBits, outBits, rev16, rev8, stream) ==
    LET r == CompressBlocks(raw, inBits \div 8, rev16, rev8)
    IN  IF r.err # NoErr THEN r
        ELSE [err |-> NoErr, out |-> UnXORKeyStream(stream, r.out)]

\* ---------------------------------------------------------------- encoder
\* lines 226-232: the expanded length field of one frame
processLength(encoder, length) ==
    ExpandBytes(PutUint16(length), encoder.compressedBlockBits,
        encoder.expandedBlockBits, encoder.table16.codes, encoder.table8.codes,
        encoder.writeStream)

\* lines 234-244: the expanded payload and the byte count reported
encode(encoder, payload) ==
    [ n |-> ExpandedNBytes(Len(payload), encoder.compressedBlockBits,
                encoder.expandedBlockBits),
      frame |-> ExpandBytes(payload, encoder.compressedBlockBits,
                    encoder.expandedBlockBits, encoder.table16.codes,
                    encoder.table8.codes, encoder.writeStream) ]

\* lines 195-197
encoderPayloadOverhead(encoder, payloadLen) ==
    ExpandedNBytes(payloadLen, encoder.compressedBlockBits,
        encoder.expandedBlockBits) - payloadLen

\* lines 245-250: the payload itself for the payload type, a panic otherwise
makePayload(pktType, payload) ==
    IF pktType # PacketTypePayload
    THEN [panic |-> TRUE, out |-> << >>]
    ELSE [panic |-> FALSE, out |-> payload]

\* the write stream after n source bytes went through ExpandBytes
Wrote(encoder, n) == [encoder EXCEPT !.writeStream = Advance(@, n)]

\* ---------------------------------------------------------------- decoder
\* lines 343-345
compressBytes(decoder, raw) ==
    CompressBytes(raw, decoder.expandedBlockBits, decoder.compressedBlockBits,
        decoder.revTable16, decoder.revTable8, decoder.readStream)

\* A length decoder that reports length zero, and no error, for a field it
\* could not decode.
decodeLengthDefault(decoder, lengthBytes) ==
    [err |-> NoErr, length |-> 0]

\* lines 302-309
decodeLength(decoder, lengthBytes) ==
    LET r == compressBytes(decoder, SubSeq(lengthBytes, 1, decoder.LengthLength))
    IN  IF r.err # NoErr THEN [err |-> r.err, length |-> 0]
        ELSE [err |-> NoErr, length |-> Uint16(r.out)]

\* A payload decoder that drops the bytes after the last whole code word.
decodePayloadTruncating(decoder, frame) ==
    LET whole == Len(frame) - (Len(frame) % (decoder.expandedBlockBits \div 16))
        r == compressBytes(decoder, SubSeq(frame, 1, whole))
    IN  IF r.err # NoErr THEN [err |-> r.err, out |-> << >>]
        ELSE [err |-> NoErr, out |-> r.out]

\* lines 322-341, on the frame GetFrame handed over
decodePayload(decoder, frame) ==
    LET compressedNBytes == CompressedNBytes(Len(frame),
                                decoder.expandedBlockBits, decoder.compressedBlockBits)
        r == compressBytes(decoder, frame)
    IN  IF r.err # NoErr THEN [err |-> r.err, out |-> << >>]
        ELSE [err |-> NoErr, out |-> SubSeq(r.out, 1, compressedNBytes)]

\* An overhead that is the whole expanded size.
decoderPayloadOverheadWhole(decoder, payloadLen) ==
    ExpandedNBytes(payloadLen, decoder.compressedBlockBits,
        decoder.expandedBlockBits)

\* lines 198-200
decoderPayloadOverhead(decoder, payloadLen) ==
    ExpandedNBytes(payloadLen, decoder.compressedBlockBits,
        decoder.expandedBlockBits) - payloadLen

\* the read stream after n bytes came out of CompressBytes
Consumed(decoder, n) == [decoder EXCEPT !.readStream = Advance(@, n)]

\* ------------------------------------------------- a client and a server
Sides == {"client", "server"}
Peer(side) == IF side = "client" THEN "server" ELSE "client"

\* the payloads Chop hands to the encoder: 1 .. MaxPacketPayloadLength bytes
MaxPayload == newRiverrunEncoder(0, 0, 0, 0, compressedBlockBits,
                  expandedBlockBits).MaxPacketPayloadLength

Payloads == UNION { [1..n -> Byte] : n \in 1..MaxPayload }

\* A Conn whose two directions run on one stream object.
ConnWrittenSharedStream(c, encoder) ==
    [c EXCEPT !.Encoder = encoder, !.Decoder.readStream = encoder.writeStream]

\* lines 358-393: what a Write leaves of the Conn: rr.Encoder is the only
\* field it reaches, and the write stream the only stream
ConnWritten(c, encoder) == [c EXCEPT !.Encoder = encoder]

\* One frame written by `side`: the framing scaffold's Chop calls
\* ProcessLength, then Encode, and the frame goes to the transport.  A frame
\* is added while at most one payload's worth of bytes awaits delivery to
\* the reader.
WriteFrame(side) ==
    /\ nsent[side] < MaxFrames
    /\ Len(sent[side]) <= MaxPayload
    /\ \E payload \in Payloads :
          LET e0 == ends[side].Encoder
              lengthBytes == processLength(e0, Len(payload))
              e1 == Wrote(e0, LengthLength)
              enc == encode(e1, payload)
              e2 == Wrote(e1, Len(payload))
          IN  /\ ends' = [ends EXCEPT ![side] = ConnWritten(@, e2)]
              /\ wire' = [wire EXCEPT ![side] = @ \o lengthBytes \o enc.frame]
              /\ sent' = [sent EXCEPT ![side] = @ \o payload]
    /\ nsent' = [nsent EXCEPT ![side] = @ + 1]
    /\ UNCHANGED <<cacheVars, callVars, writeVars, readErr, hook>>

\* A frame written in a behaviour that has one writing side, client or
\* server.
SendFrame(side) ==
    /\ nsent[Peer(side)] = 0
    /\ WriteFrame(side)

\* Conn.Read on `side`, first step: the framing scaffold takes LengthLength
\* bytes from the transport and calls DecodeLength.
ReadLength(side) ==
    LET d == ends[side].Decoder
        from == Peer(side)
    IN  /\ readErr[side] = NoErr
        /\ d.NextLength = 0
        /\ Len(wire[from]) >= d.LengthLength
        /\ LET r == decodeLength(d, wire[from])
               expanded == r.length + decoderPayloadOverhead(d, r.length)
           IN  IF r.err # NoErr
               THEN /\ readErr' = [readErr EXCEPT ![side] = r.err]
                    /\ UNCHANGED ends
               ELSE IF expanded > d.MaxFramePayloadLength \/ expanded < d.MinPayloadLength
               THEN /\ readErr' = [readErr EXCEPT ![side] = "InvalidPayloadLength"]
                    /\ UNCHANGED ends
               ELSE /\ ends' = [ends EXCEPT ![side].Decoder =
                                   [Consumed(d, LengthLength) EXCEPT !.NextLength = expanded]]
                    /\ UNCHANGED readErr
        /\ wire' = [wire EXCEPT ![from] = SubSeq(@, d.LengthLength + 1, Len(@))]
        /\ UNCHANGED <<cacheVars, callVars, writeVars, sent, nsent, hook>>

\* Conn.Read, second step: GetFrame takes NextLength bytes, DecodePayload
\* compresses them and ParsePacket appends them to ReceiveDecodedBuffer.
ReadPayload(side) ==
    LET d == ends[side].Decoder
        from == Peer(side)
    IN  /\ readErr[side] = NoErr
        /\ d.NextLength # 0
        /\ Len(wire[from]) >= d.NextLength
        /\ LET r == decodePayload(d, SubSeq(wire[from], 1, d.NextLength))
           IN  IF r.err # NoErr
               THEN /\ readErr' = [readErr EXCEPT ![side] = r.err]
                    /\ UNCHANGED ends
               ELSE /\ ends' = [ends EXCEPT ![side].Decoder =
                                   [Consumed(d, Len(r.out)) EXCEPT
                                       !.NextLength = 0,
                                       !.ReceiveDecodedBuffer =
                                           @ \o SubSeq(r.out, d.PacketOverhead + 1, Len(r.out))]]
                    /\ UNCHANGED readErr
        /\ wire' = [wire EXCEPT ![from] = SubSeq(@, d.NextLength + 1, Len(@))]
        /\ UNCHANGED <<cacheVars, callVars, writeVars, sent, nsent, hook>>

\* Conn.Read, last step: the decoded bytes are copied to the caller and
\* leave the buffer; they are then no longer outstanding at the writer.
ReadDeliver(side) ==
    LET d == ends[side].Decoder
        n == Len(d.ReceiveDecodedBuffer)
    IN  /\ n > 0
        /\ ends' = [ends EXCEPT ![side].Decoder.ReceiveDecodedBuffer = << >>]
        /\ sent' = [sent EXCEPT ![Peer(side)] = SubSeq(@, n + 1, Len(@))]
        /\ UNCHANGED <<cacheVars, callVars, writeVars, wire, nsent, readErr, hook>>

\* A client and a server of one seed, each built by NewConn in a process of
\* its own, so each from its own build of the tables.
InitCodec ==
    /\ CacheInit
    /\ WriteIdle
    /\ \E s \in Seeds :
          ends = [ client |-> MakeConn(s, FALSE, FreshTable8(s, 1), FreshTable16(s, 1)),
                   server |-> MakeConn(s, TRUE, FreshTable8(s, 2), FreshTable16(s, 2)) ]
    /\ wire = [side \in Sides |-> << >>]
    /\ sent = [side \in Sides |-> << >>]
    /\ nsent = [side \in Sides |-> 0]
    /\ readErr = [side \in Sides |-> NoErr]
    /\ hook = NoHook

NextCodec ==
    \E side \in Sides :
        \/ SendFrame(side)
        \/ ReadLength(side)
        \/ ReadPayload(side)
        \/ ReadDeliver(side)

SpecCodec == InitCodec /\ [][NextCodec]_vars

\* ------------------------------------------- a reader on untrusted bytes
\* The client of a pair reads what an untrusted transport delivers: any
\* bytes, and, for the frame in hand, any frame length the scaffold may have
\* been left with (0: the length field is read first).
InitDecode ==
    /\ CacheInit
    /\ WriteIdle
    /\ \E s \in Seeds :
       \E n \in 0..(MaximumSegmentLength - ExpandedNBytes(LengthLength,
                       compressedBlockBits, expandedBlockBits)) :
          LET c == MakeConn(s, FALSE, FreshTable8(s, 1), FreshTable16(s, 1))
          IN  ends = [ client |-> [c EXCEPT !.Decoder.NextLength = n],
                       server |-> MakeConn(s, TRUE, FreshTable8(s, 2), FreshTable16(s, 2)) ]
    /\ \E w \in ByteStrings(0, MaxWire) :
          wire = [client |-> << >>, server |-> w]
    /\ sent = [side \in Sides |-> << >>]
    /\ nsent = [side \in Sides |-> 0]
    /\ readErr = [side \in Sides |-> NoErr]
    /\ hook = NoHook

NextDecode ==
    \/ ReadLength("client")
    \/ ReadPayload("client")
    \/ ReadDeliver("client")

SpecDecode == InitDecode /\ [][NextDecode]_vars

IsPrefix(p, q) == Len(p) <= Len(q) /\ p = SubSeq(q, 1, Len(p))

\* ------------------------------------- one Conn read and written at once
\* The client Conn is used by two goroutines, one in Conn.Write and one in
\* Conn.Read, while a frame the server wrote is on the transport.
InitDuplex ==
    /\ CacheInit
    /\ WriteIdle
    /\ \E s \in Seeds, payload \in Payloads :
          LET srv == MakeConn(s, TRUE, FreshTable8(s, 2), FreshTable16(s, 2))
              e0 == srv.Encoder
              e1 == Wrote(e0, LengthLength)
          IN  /\ ends = [ client |-> MakeConn(s, FALSE, FreshTable8(s, 1), FreshTable16(s, 1)),
                          server |-> ConnWritten(srv, Wrote(e1, Len(payload))) ]
              /\ wire = [ client |-> << >>,
                          server |-> processLength(e0, Len(payload))
                                         \o encode(e1, payload).frame ]
              /\ sent = [client |-> << >>, server |-> payload]
    /\ nsent = [client |-> 0, server |-> 1]
    /\ readErr = [side \in Sides |-> NoErr]
    /\ hook = NoHook

\* the writer's one Write call
DuplexWrite ==
    /\ nsent["client"] = 0
    /\ WriteFrame("client")

NextDuplex ==
    \/ DuplexWrite
    \/ ReadLength("client")
    \/ ReadPayload("client")
    \/ ReadDeliver("client")

SpecDuplex == InitDuplex /\ [][NextDuplex]_vars

\* the client's encoder as NewConn returned it
FreshEncoder == [ends["client"].Encoder EXCEPT !.writeStream.pos = 0]

\* what Write puts on the transport for payload p when nothing else runs
SequentialWire(p) ==
    processLength(FreshEncoder, Len(p))
        \o encode(Wrote(FreshEncoder, LengthLength), p).frame

\* C17: reading and writing on one Conn are independent.  A step that
\* changes the encoder leaves the decoder and the inbound bytes alone, a step
\* that changes the decoder leaves the encoder and the outbound bytes alone;
\* under every interleaving the bytes written are those of a Write running
\* alone, and the bytes decoded those of a Read running alone.
C17_DirectionsIndependent ==
    /\ [][ /\ ends'["client"].Encoder # ends["client"].Encoder =>
                  /\ ends'["client"].Decoder = ends["client"].Decoder
                  /\ wire'["server"] = wire["server"]
           /\ ends'["client"].Decoder # ends["client"].Decoder =>
                  /\ ends'["client"].Encoder = ends["client"].Encoder
                  /\ wire'["client"] = wire["client"] ]_vars
    /\ [](LET c == ends["client"]
          IN  /\ nsent["client"] = 0 =>
                     (wire["client"] = << >> /\ c.Encoder.writeStream.pos = 0)
              /\ nsent["client"] = 1 =>
                     /\ wire["client"] = SequentialWire(sent["client"])
                     /\ c.Encoder.writeStream.pos = LengthLength + Len(sent["client"])
              /\ readErr["client"] = NoErr
              /\ IsPrefix(c.Decoder.ReceiveDecodedBuffer, sent["server"])
              /\ c.Decoder.NextLength # 0 => c.Decoder.readStream.pos = LengthLength
              /\ (wire["server"] = << >> /\ c.Decoder.NextLength = 0) =>
                     c.Decoder.ReceiveDecodedBuffer = sent["server"])

\* the client has written a frame of the largest payload length and has
\* decoded the server's frame of the largest payload length
C17_Witness ==
    /\ nsent["client"] = 1
    /\ wire["server"] = << >>
    /\ Len(ends["client"].Decoder.ReceiveDecodedBuffer) = MaxPayload
    /\ ends["client"].Decoder.readStream.pos = LengthLength + MaxPayload
    /\ Len(sent["client"]) = MaxPayload

\* C3: the payloads one side passes to its Encoder, decoded in order by the
\* other side's Decoder, come out unchanged, for every payload length and
\* any number of consecutive frames, in both directions: no read fails, the
\* decoded bytes are the first outstanding bytes written, the decoder never
\* waits for bytes that were not written, and once the transport is drained
\* everything written has been decoded.
C3_RoundTrip ==
    \A side \in Sides :
        LET d == ends[side].Decoder
            from == Peer(side)
        IN  /\ readErr[side] = NoErr
            /\ IsPrefix(d.ReceiveDecodedBuffer, sent[from])
            /\ d.NextLength # 0 => Len(wire[from]) >= d.NextLength
            /\ (wire[from] = << >> /\ d.NextLength = 0) =>
                   d.ReceiveDecodedBuffer = sent[from]

\* the client has decoded two consecutive frames from the server, one of the
\* largest payload length and one a byte shorter (an odd and an even length)
C3_Witness ==
    /\ nsent["server"] >= 2
    /\ wire["server"] = << >>
    /\ ends["client"].Decoder.NextLength = 0
    /\ Len(ends["client"].Decoder.ReceiveDecodedBuffer) = 2 * MaxPayload - 1
    /\ ends["client"].Decoder.readStream.pos = 2 * LengthLength + 2 * MaxPayload - 1

\* ------------------------------------------------- direct calls of hooks
\* The coders of a Conn are exported, and so are the hooks the constructors
\* assign to them (lines 209-213 and 280-284).  A caller invokes one hook of
\* a freshly built pair, with any arguments.
PacketTypes == 0..MaxPktType

\* encoder.ChopPayload: makePayload
CallChopPayload(side) ==
    /\ hook = NoHook
    /\ \E pktType \in PacketTypes, payload \in ByteStrings(0, MaxPayload) :
          hook' = [ op |-> "makePayload", side |-> side, pktType |-> pktType,
                    payload |-> payload, res |-> makePayload(pktType, payload) ]
    /\ UNCHANGED <<cacheVars, callVars, writeVars, ends, wire, sent, nsent, readErr>>

\* encoder.ProcessLength and encoder.Encode for one payload the encoder
\* admits, the empty one included
CallEncode(side) ==
    /\ hook = NoHook
    /\ \E payload \in ByteStrings(0, ends[side].Encoder.MaxPacketPayloadLength) :
          LET e0 == ends[side].Encoder
              e1 == Wrote(e0, LengthLength)
              enc == encode(e1, payload)
          IN  /\ hook' = [ op |-> "encode", side |-> side, payload |-> payload,
                           lengthBytes |-> processLength(e0, Len(payload)),
                           n |-> enc.n, frame |-> enc.frame ]
              /\ ends' = [ends EXCEPT ![side].Encoder = Wrote(e1, Len(payload))]
    /\ UNCHANGED <<cacheVars, callVars, writeVars, wire, sent, nsent, readErr>>

\* decoder.DecodeLength and decoder.DecodePayload of the peer, on the frame
\* just encoded
CallDecode(side) ==
    /\ hook.op = "encode"
    /\ hook.side = Peer(side)
    /\ LET d0 == ends[side].Decoder
           len == decodeLength(d0, hook.lengthBytes)
           d1 == Consumed(d0, LengthLength)
           dec == decodePayload(d1, hook.frame)
       IN  /\ hook' = [ op |-> "decode", side |-> side, payload |-> hook.payload,
                        frame |-> hook.frame, length |-> len.length,
                        err |-> IF len.err # NoErr THEN len.err ELSE dec.err,
                        out |-> dec.out ]
           /\ ends' = [ends EXCEPT ![side].Decoder = Consumed(d1, Len(dec.out))]
    /\ UNCHANGED <<cacheVars, callVars, writeVars, wire, sent, nsent, readErr>>

\* encoder.PayloadOverhead of one side and decoder.PayloadOverhead of its peer
CallPayloadOverhead(side) ==
    /\ hook = NoHook
    /\ \E payloadLen \in 0..MaximumSegmentLength :
          hook' = [ op |-> "payloadOverhead", side |-> side, payloadLen |-> payloadLen,
                    enc |-> encoderPayloadOverhead(ends[side].Encoder, payloadLen),
                    dec |-> decoderPayloadOverhead(ends[Peer(side)].Decoder, payloadLen) ]
    /\ UNCHANGED <<cacheVars, callVars, writeVars, ends, wire, sent, nsent, readErr>>

NextHooks ==
    \E side \in Sides :
        \/ CallChopPayload(side)
        \/ CallEncode(side)
        \/ CallDecode(side)
        \/ CallPayloadOverhead(side)

SpecHooks == InitCodec /\ [][NextHooks]_vars

\* C11: makePayload accepts the payload type only: any other type is
\* reported to the caller and does not end the process, and for the payload
\* type the payload is returned unchanged.
C11_BadTypeIsAnError ==
    hook.op = "makePayload" =>
        /\ ~hook.res.panic
        /\ hook.pktType = PacketTypePayload => hook.res.out = hook.payload

\* expand-size of n bytes for the bit widths of a coder
ExpandSize(coder, n) ==
    ExpandedNBytes(n, coder.compressedBlockBits, coder.expandedBlockBits)

\* C15: for every payload length the encoder admits, the expanded length
\* field and the expanded payload together fit in MaximumSegmentLength, and
\* the peer decoder's MaxFramePayloadLength admits the largest expanded
\* payload; an encoded frame is of that size.
C15_FrameFitsSegment ==
    /\ \A side \in Sides :
          LET e == ends[side].Encoder
              d == ends[Peer(side)].Decoder
          IN  /\ \A L \in 0..e.MaxPacketPayloadLength :
                    e.LengthLength + ExpandSize(e, L) <= MaximumSegmentLength
              /\ d.MaxFramePayloadLength = MaximumSegmentLength - d.LengthLength
              /\ d.MaxFramePayloadLength >= ExpandSize(e, e.MaxPacketPayloadLength)
    /\ hook.op = "encode" =>
          /\ Len(hook.lengthBytes) + Len(hook.frame) <= MaximumSegmentLength
          /\ Len(hook.frame) <= ends[Peer(hook.side)].Decoder.MaxFramePayloadLength

\* a payload of the largest length admitted was encoded
C15_Witness ==
    /\ hook.op = "encode"
    /\ Len(hook.payload) = ends[hook.side].Encoder.MaxPacketPayloadLength
    /\ Len(hook.lengthBytes) + Len(hook.frame) > MaximumSegmentLength - 2

\* C16: encoder and decoder agree on the byte-length arithmetic: both
\* overheads are expand-size(L) - L; encode reports expand-size(len(payload))
\* bytes and writes as many; both LengthLength fields are expand-size(2),
\* the size of an encoded length field; and decodePayload returns L bytes for
\* a frame of expand-size(L) bytes.
C16_SameArithmetic ==
    /\ \A side \in Sides :
          /\ ends[side].Encoder.LengthLength = ExpandSize(ends[side].Encoder, LengthLength)
          /\ ends[side].Decoder.LengthLength = ExpandSize(ends[side].Encoder, LengthLength)
    /\ hook.op = "payloadOverhead" =>
          /\ hook.enc = hook.dec
          /\ hook.enc = ExpandSize(ends[hook.side].Encoder, hook.payloadLen) - hook.payloadLen
    /\ hook.op = "encode" =>
          /\ hook.n = ExpandSize(ends[hook.side].Encoder, Len(hook.payload))
          /\ hook.n = Len(hook.frame)
          /\ Len(hook.lengthBytes) = ends[hook.side].Encoder.LengthLength
    /\ hook.op = "decode" =>
          /\ hook.err = NoErr
          /\ hook.length = Len(hook.payload)
          /\ Len(hook.frame) = ExpandSize(ends[hook.side].Decoder, Len(hook.payload))
          /\ Len(hook.out) = Len(hook.payload)
          /\ hook.out = hook.payload

\* a frame of an odd payload length was encoded by the server and decoded
\* by the client
C16_Witness ==
    /\ hook.op = "decode"
    /\ hook.side = "client"
    /\ Len(hook.payload) % 2 = 1
    /\ Len(hook.payload) > 1

\* ------------------------------------------------ claims on decode errors
DecodeErrors == {"codeword", "format"}

\* the bytes the next read step of the client decodes: the length field, or
\* the frame of NextLength bytes; << >> while too few bytes have arrived
Pending ==
    LET d == ends["client"].Decoder
        n == IF d.NextLength = 0 THEN d.LengthLength ELSE d.NextLength
    IN  IF readErr["client"] = NoErr /\ Len(wire["server"]) >= n
        THEN SubSeq(wire["server"], 1, n)
        ELSE << >>

\* raw holds a code word that the reverse table of its width does not have:
\* one of its whole groups of four bytes, or a last group of two
HasAbsentCodeword(decoder, raw) ==
    LET g == decoder.expandedBlockBits \div 8
    IN  \/ \E j \in 0..((Len(raw) \div g) - 1) :
              BytesWord(SubSeq(raw, g * j + 1, g * j + g)) \notin DOMAIN decoder.revTable16
        \/ /\ Len(raw) % g = g \div 2
           /\ BytesWord(SubSeq(raw, Len(raw) - (g \div 2) + 1, Len(raw)))
                  \notin DOMAIN decoder.revTable8

\* n bytes are a whole number of code words: groups of four and at most one
\* last group of two
WholeCodewords(decoder, n) ==
    LET g == decoder.expandedBlockBits \div 8
    IN  n % g \in {0, g \div 2}

\* the read step that decodes the pending bytes is taken
ReadStep == wire' # wire

\* the step failed and delivered nothing
FailedRead ==
    /\ readErr'["client"] \in DecodeErrors
    /\ ends'["client"].Decoder.ReceiveDecodedBuffer
           = ends["client"].Decoder.ReceiveDecodedBuffer

\* C13: when the expanded bytes hold a code word absent from the reverse
\* table, decodeLength returns (0, error) and decodePayload (nil, error), and
\* the read fails without a byte of that frame reaching the receive buffer.
C13_AbsentCodewordFails ==
    [][ (Pending # << >> /\ HasAbsentCodeword(ends["client"].Decoder, Pending)) =>
          LET d == ends["client"].Decoder
          IN  /\ d.NextLength = 0 =>
                     /\ decodeLength(d, Pending).err \in DecodeErrors
                     /\ decodeLength(d, Pending).length = 0
              /\ d.NextLength # 0 =>
                     /\ decodePayload(d, Pending).err \in DecodeErrors
                     /\ decodePayload(d, Pending).out = << >>
              /\ ReadStep => FailedRead ]_vars

\* a length field was decoded, and the frame after it failed on a code word
C13_Witness ==
    /\ readErr["client"] = "codeword"
    /\ ends["client"].Decoder.NextLength # 0
    /\ ends["client"].Decoder.readStream.pos = LengthLength
    /\ ends["client"].Decoder.ReceiveDecodedBuffer = << >>

\* C14: decodePayload on a frame whose length is not a whole number of code
\* words fails with a decode error and returns no plaintext: the length is
\* neither truncated nor rounded.
C14_PartialCodewordFails ==
    [][ (Pending # << >> /\ ends["client"].Decoder.NextLength # 0
            /\ ~WholeCodewords(ends["client"].Decoder, Len(Pending))) =>
          /\ decodePayload(ends["client"].Decoder, Pending).err \in DecodeErrors
          /\ decodePayload(ends["client"].Decoder, Pending).out = << >>
          /\ ReadStep => FailedRead ]_vars

\* a frame of five bytes, one whole code word and one byte more, was refused
C14_Witness ==
    /\ readErr["client"] = "format"
    /\ ends["client"].Decoder.NextLength = 5
    /\ ends["client"].Decoder.ReceiveDecodedBuffer = << >>

\* ------------------------------------------------------------- Conn.Write
\* Conn.mss_max values tried, zero and a negative one included
MssValues == (0 - 1)..MaxMss
DevValues == 0..MaxDev

ChopErrors == {"ErrChop"}
TransportErrors == {"EPIPE", "ETIMEDOUT"}

RECURSIVE Concat(_)
Concat(chunks) ==
    IF chunks = << >> THEN << >>
    ELSE Concat(SubSeq(chunks, 1, Len(chunks) - 1)) \o chunks[Len(chunks)].bytes

\* lines 348-351: noise for a draw z, made non-negative
Noise(z, mss_dev) ==
    LET noise == z * mss_dev
    IN  IF noise < 0 THEN noise * (0 - 1) ELSE noise

\* A rejection test that lets a draw equal to mss_max through.
RejectsAbove(noise, mss_max) == noise > mss_max

\* line 352: the draw is rejected and nextLength calls itself
Rejects(noise, mss_max) == noise >= mss_max

\* line 355
Accepted(noise, mss_max) == mss_max - noise

\* make([]byte, n): n zero bytes
MakeBytes(n) == [i \in 1..n |-> 0]

\* bytes.Buffer.Read(p): the bytes copied into p, their count, what is left
\* in the buffer, and io.EOF when the buffer is empty and p is not
BufferRead(buf, p) ==
    LET n == Min(Len(buf), Len(p))
    IN  [ p |-> [i \in 1..Len(p) |-> IF i <= n THEN buf[i] ELSE p[i]],
          n |-> n,
          rest |-> SubSeq(buf, n + 1, Len(buf)),
          err |-> IF buf = << >> /\ Len(p) > 0 THEN "EOF" ELSE NoErr ]

\* The whole chunk buffer handed to the transport, whatever Read filled.
WireChunkWhole(buf, n) == buf

\* line 383: toWire[:s]
WireChunk(buf, n) == SubSeq(buf, 1, n)

\* A write loop that carries on after a failed transport write.
AbortsNever(e) == FALSE

\* line 384: if err != nil { return }
Aborts(e) == e # NoErr

\* lines 361-365: Chop fails and Write returns its error, or Chop returns the
\* frame buffer and the loop is entered
Chop ==
    /\ wpc = "chop"
    /\ \/ /\ \E e \in ChopErrors : ret' = [n |-> 0, err |-> e]
          /\ wpc' = "done"
          /\ UNCHANGED <<encoded, frameBuf>>
       \/ /\ \E buf \in ByteStrings(0, MaxFrameBuf) :
                /\ encoded' = buf
                /\ frameBuf' = buf
          /\ ret' = [n |-> 0, err |-> NoErr]
          /\ wpc' = "nextLength"
    /\ UNCHANGED <<cacheVars, callVars, codecVars,
                   rr, depth, nextLen, toWire, nread, writes>>

\* lines 347-356, one activation of nextLength: a draw is accepted and the
\* size returned to Write, or rejected and nextLength called again; when the
\* stack cannot hold another call the runtime ends the process
NextLength ==
    /\ wpc = "nextLength"
    /\ \E z \in (0 - MaxNorm)..MaxNorm :
          LET noise == Noise(z, rr.mss_dev)
          IN  IF Rejects(noise, rr.mss_max)
              THEN IF depth < MaxStack
                   THEN /\ depth' = depth + 1
                        /\ UNCHANGED <<wpc, nextLen>>
                   ELSE /\ wpc' = "stack overflow"
                        /\ UNCHANGED <<depth, nextLen>>
              ELSE /\ nextLen' = Accepted(noise, rr.mss_max)
                   /\ wpc' = "read"
                   /\ UNCHANGED depth
    /\ UNCHANGED <<cacheVars, callVars, codecVars,
                   rr, encoded, frameBuf, toWire, nread, writes, ret>>

\* lines 371-379: the chunk buffer is made and filled from the frame buffer;
\* at the end of the buffer Write returns, io.EOF not being reported
Read ==
    /\ wpc = "read"
    /\ IF nextLen < 0
       THEN /\ wpc' = "panic"
            /\ UNCHANGED <<frameBuf, toWire, nread>>
       ELSE LET r == BufferRead(frameBuf, MakeBytes(nextLen))
            IN  /\ toWire' = r.p
                /\ nread' = r.n
                /\ frameBuf' = r.rest
                /\ wpc' = IF r.err # NoErr THEN "done" ELSE "write"
    /\ UNCHANGED <<cacheVars, callVars, codecVars,
                   rr, encoded, depth, nextLen, writes, ret>>

\* lines 383-387: the chunk goes to the transport, which takes it or fails;
\* on failure Write returns the transport's error
TransportWrite ==
    /\ wpc = "write"
    /\ Len(writes) <= Len(encoded)
    /\ \E e \in TransportErrors \cup {NoErr} :
          /\ writes' = Append(writes,
                 [bytes |-> WireChunk(toWire, nread), nextLength |-> nextLen, err |-> e])
          /\ ret' = [ret EXCEPT !.err = e]
          /\ IF Aborts(e)
             THEN /\ wpc' = "done"
                  /\ UNCHANGED depth
             ELSE /\ wpc' = "nextLength"
                  /\ depth' = 0
    /\ UNCHANGED <<cacheVars, callVars, codecVars,
                   rr, encoded, frameBuf, nextLen, toWire, nread>>

\* a Conn with some mss_max and mss_dev, about to run Write
InitWrite ==
    /\ CacheInit
    /\ CodecIdle
    /\ \E m \in MssValues, d \in DevValues : rr = [mss_max |-> m, mss_dev |-> d]
    /\ wpc = "chop"
    /\ encoded = << >>
    /\ frameBuf = << >>
    /\ depth = 0
    /\ nextLen = 0
    /\ toWire = << >>
    /\ nread = 0
    /\ writes = << >>
    /\ ret = [n |-> 0, err |-> NoErr]

NextWrite ==
    \/ Chop
    \/ NextLength
    \/ Read
    \/ TransportWrite

SpecWrite == InitWrite /\ [][NextWrite]_vars

\* The goroutine running Write is scheduled as long as it has a step to take,
\* and Chop and the transport return.
SpecWriteFair == SpecWrite /\ WF_vars(NextWrite)

\* ---------------------------------------------------- claims on the writes
\* Chop succeeded and no transport write has failed
AllWritten == \A i \in DOMAIN writes : writes[i].err = NoErr

\* the chunk read from the frame buffer and not yet handed to the transport
InHand == IF wpc = "write" THEN WireChunk(toWire, nread) ELSE << >>

\* C7: in a Write whose encoding and transport writes succeed, the transport
\* writes concatenated in order are the frame buffer: what was written, what
\* is in hand and what is left make up the encoded buffer, and at return
\* everything was written; every write is non-empty and at most mss_max
\* bytes, and every write but the last has the size nextLength drew.
C7_ChunksAreTheBuffer ==
    (ret.err = NoErr /\ AllWritten /\ wpc # "chop") =>
        /\ Concat(writes) \o InHand \o frameBuf = encoded
        /\ wpc = "done" => Concat(writes) = encoded
        /\ \A i \in DOMAIN writes :
              /\ Len(writes[i].bytes) >= 1
              /\ Len(writes[i].bytes) <= rr.mss_max
              /\ Len(writes[i].bytes) <= writes[i].nextLength
              /\ i < Len(writes) => Len(writes[i].bytes) = writes[i].nextLength

\* Write returned without error after several transport writes, the last one
\* shorter than the size drawn for it
C7_Witness ==
    /\ wpc = "done" /\ ret.err = NoErr
    /\ Len(writes) >= 2
    /\ Len(writes[Len(writes)].bytes) < writes[Len(writes)].nextLength
    /\ Len(encoded) = MaxFrameBuf

\* C8: every value nextLength returns is a whole number from 1 to mss_max.
C8_LengthInRange ==
    /\ wpc \in {"read", "write"} => (nextLen >= 1 /\ nextLen <= rr.mss_max)
    /\ \A i \in DOMAIN writes :
          writes[i].nextLength >= 1 /\ writes[i].nextLength <= rr.mss_max

\* a size below mss_max was returned after a draw had been rejected
C8_Witness ==
    /\ wpc = "read"
    /\ depth > 0
    /\ nextLen < rr.mss_max

\* C9: chunk-size sampling is a bounded retry: nextLength gives up with an
\* error after a fixed number of draws, so the recursion never runs until the
\* stack is exhausted, whatever mss_max and mss_dev are.
C9_BoundedRetry == wpc # "stack overflow"

\* C10: an error ends the Write call and is what the call returns: after a
\* failed Chop nothing is written to the transport; a failed transport write
\* is the last one, its error is returned unchanged, and the bytes not yet
\* written stay in the frame buffer.
C10_ErrorAborts ==
    /\ ret.err \in ChopErrors => (writes = << >> /\ wpc = "done")
    /\ \A i \in DOMAIN writes :
          writes[i].err # NoErr =>
              /\ i = Len(writes)
              /\ wpc = "done"
              /\ ret.err = writes[i].err
              /\ Concat(writes) \o frameBuf = encoded
    /\ (wpc = "done" /\ ret.err = NoErr) => AllWritten

\* a transport write failed after one that succeeded, with bytes left unsent
C10_Witness ==
    /\ wpc = "done"
    /\ Len(writes) = 2
    /\ writes[1].err = NoErr
    /\ writes[2].err = "ETIMEDOUT"
    /\ frameBuf # << >>

====
